---------------------------- MODULE Spec2Model ----------------------------
(***************************************************************************)
(* Model of Planet_Tracker.py, a Streamlit script.  Streamlit runs the     *)
(* script top to bottom on every user interaction (a "rerun"); only        *)
(* st.session_state survives from one run to the next.  One run is         *)
(* modelled as a sequence of steps (pc), the external calls (the clock,    *)
(* the ephemeris, the rise/set library) as nondeterministic inputs.        *)
(*                                                                         *)
(* Text that the script parses is a sequence of one-character strings.     *)
(* Angles are whole degrees, instants are minutes since day 0, 00:00 UTC.  *)
(* Azimuths and colours are appended alongside labels/altitudes by the     *)
(* same guard (lines 87-91) and are not carried.                           *)
(***************************************************************************)
EXTENDS Integers, Sequences, FiniteSets, TLC

VARIABLES
    pc,             \* position of the current script run
    lat, lon,       \* values of the two number_input widgets (lines 20, 22)
    date,           \* value of the date_input widget (line 46)
    location,       \* EarthLocation (line 24), NoLocation before it is built
    session_state,  \* st.session_state: a function from its keys to values
    warnings,       \* st.warning messages shown by this run
    time_utc,       \* line 64
    sun,            \* sun.alt.degree (line 81)
    is_night, is_day,
    i,              \* catalog bodies consumed by the visibility loop (line 85)
    labels, altitudes,
    background,     \* face colour set by lines 100-108
    j,              \* catalog bodies consumed by the rise/set loop (line 149)
    rise_set_info,  \* line 146
    table,          \* what st.table shows (lines 163-167)
    alt_of,         \* history: altitude the ephemeris returned, per body asked
    vis_fault,      \* history: bodies whose ephemeris call raised in lines 81-86
    outcomes,       \* history: what the rise/set library met, per row
    rise_fault,     \* history: bodies whose lookup (line 150) raised
    nQueries        \* history: ephemeris queries made by this run

vars == <<pc, lat, lon, date, location, session_state, warnings, time_utc, sun,
          is_night, is_day, i, labels, altitudes, background, j, rise_set_info,
          table, alt_of, vis_fault, outcomes, rise_fault, nQueries>>

-----------------------------------------------------------------------------
(* Bounds of the model *)

MaxFaults == 1        \* ephemeris / library failures per rise-set table
MaxCircumpolar == 1   \* bodies without a horizon crossing per rise-set table

-----------------------------------------------------------------------------
(* Program constants *)

DefaultLat == 13      \* value=13.00844
DefaultLon == 75      \* value=74.79777
IstOffset == 330      \* timedelta(hours=5.5), in minutes
NightLimit == -6
MinutesPerDay == 1440

\* lines 68-77: dict order is insertion order
planets == <<"mercury", "venus", "mars", "jupiter", "saturn", "uranus",
             "neptune", "sun">>

\* str.capitalize() on the catalog keys (lines 90, 151, 160)
capitalize(p) ==
    CASE p = "mercury" -> "Mercury"
      [] p = "venus"   -> "Venus"
      [] p = "mars"    -> "Mars"
      [] p = "jupiter" -> "Jupiter"
      [] p = "saturn"  -> "Saturn"
      [] p = "uranus"  -> "Uranus"
      [] p = "neptune" -> "Neptune"
      [] p = "sun"     -> "Sun"

NightColor == <<"#", "0", "a", "0", "a", "2", "3">>
DayColor == <<"#", "b", "5", "d", "0", "e", "8">>
TwilightColor == <<"#", "d", "4", "7", "2", "7", "e">>
NoBackground == << >>

NEVER_RISES == <<"N", "e", "v", "e", "r", " ", "r", "i", "s", "e", "s">>
NEVER_SETS == <<"N", "e", "v", "e", "r", " ", "s", "e", "t", "s">>

WARN_INVALID_TIME == "Invalid time! Use 24-hour format like 18:30."
WARN_INVALID_FORMAT == "Invalid format! Please enter time in HH:MM format."
WARN_NOTHING_VISIBLE == "No planets or Sun visible above the horizon"

NoLocation == [built |-> FALSE, lat |-> 0, lon |-> 0]
NoTable == [Planet |-> << >>, Rise |-> << >>, Set |-> << >>]
EmptyState == [k \in {} |-> 0]

-----------------------------------------------------------------------------
(* Text and time helpers *)

Digits == <<"0", "1", "2", "3", "4", "5", "6", "7", "8", "9">>

\* \d of the pattern on line 53
IsDigit(c) == \E k \in 1..10 : Digits[k] = c

DigitVal(c) == (CHOOSE k \in 1..10 : Digits[k] = c) - 1

RECURSIVE LStrip(_)
LStrip(s) == IF s # << >> /\ Head(s) = " " THEN LStrip(Tail(s)) ELSE s

RECURSIVE RStrip(_)
RStrip(s) ==
    IF s # << >> /\ s[Len(s)] = " " THEN RStrip(SubSeq(s, 1, Len(s) - 1)) ELSE s

\* str.strip() (lines 53, 55)
Strip(s) == RStrip(LStrip(s))

\* re.match(r"^\d{2}:\d{2}$", s) (line 53)
MatchesHHMM(s) ==
    /\ Len(s) = 5
    /\ IsDigit(s[1]) /\ IsDigit(s[2])
    /\ s[3] = ":"
    /\ IsDigit(s[4]) /\ IsDigit(s[5])

HourOKUpTo24(h) == h <= 24

\* the hour range %H accepts in strptime (line 55)
HourOK(h) == h <= 23

\* datetime.strptime(s, "%H:%M").time() on a text the pattern accepted
\* (lines 43, 55): ok = FALSE stands for ValueError
strptime(s) ==
    LET h == 10 * DigitVal(s[1]) + DigitVal(s[2])
        m == 10 * DigitVal(s[4]) + DigitVal(s[5])
    IN  IF HourOK(h) /\ m <= 59
        THEN [ok |-> TRUE, time |-> [hour |-> h, minute |-> m]]
        ELSE [ok |-> FALSE, time |-> [hour |-> h, minute |-> m]]

TwoDigits(n) == <<Digits[(n \div 10) + 1], Digits[(n % 10) + 1]>>

\* strftime("%H:%M") (lines 41, 155, 156)
strftime(t) == TwoDigits(t.hour) \o <<":">> \o TwoDigits(t.minute)

\* datetime.datetime.combine(date, time) - timedelta(hours=5.5) (lines 63-64)
ToUTC(d, t) == d * MinutesPerDay + t.hour * 60 + t.minute - IstOffset

\* Time.to_datetime(timezone="Asia/Kolkata") (lines 153, 154): the local
\* time of day of a UTC instant
ToLocalTime(inst) ==
    LET m == (inst + IstOffset) % MinutesPerDay
    IN  [hour |-> m \div 60, minute |-> m % 60]

-----------------------------------------------------------------------------
(* Pure pieces of the script *)

\* EarthLocation(lat=..., lon=...) (line 24): astropy rejects a latitude
\* outside [-90, 90] with an exception and wraps the longitude into
\* [-180, 180)
LatitudeAccepted(la) == -90 <= la /\ la <= 90

WrapLongitude(lo) == ((lo + 180) % 360) - 180

EarthLocation(la, lo) == [built |-> TRUE, lat |-> la, lon |-> WrapLongitude(lo)]

IsNightInclusive(alt) == alt <= NightLimit

\* line 82
IsNight(alt) == alt < NightLimit

IsDayInclusive(alt) == alt >= 0

\* line 83
IsDay(alt) == alt > 0

AboveHorizonInclusive(alt) == alt >= 0

\* line 87
AboveHorizon(alt) == alt > 0

\* lines 100-108
FaceColor(night, day) ==
    IF night THEN NightColor
    ELSE IF day THEN DayColor
    ELSE TwilightColor

\* session_state[key] = value
SetKey(s, key, value) ==
    [k \in DOMAIN s \cup {key} |-> IF k = key THEN value ELSE s[k]]

-----------------------------------------------------------------------------
(* Inputs: what the user types and what the outside world answers *)

Lats == {DefaultLat, 95}
Lons == {DefaultLon, 400}
ClockDates == {1}
Dates == {1, 2}
ClockTimes == {[hour |-> 21, minute |-> 15], [hour |-> 0, minute |-> 5]}

TimeInputs ==
    { <<"1", "8", ":", "3", "0">>,
      <<" ", "0", "6", ":", "0", "5", " ">>,
      <<"2", "4", ":", "0", "0">>,
      <<"1", "2", ":", "6", "0">>,
      <<"7", ":", "3", "0">>,
      <<"a", "b", ":", "c", "d">> }

SunAlts == {-7, -6, -3, 0, 1}
PlanetAlts == {-20, 0, 35}
ClearSunAlts == {20}
ClearPlanetAlts == {35}

\* an ephemeris call returns an altitude or raises
Answers(alts, mayFail) ==
    {[ok |-> TRUE, alt |-> a] : a \in alts}
        \cup {[ok |-> FALSE, alt |-> 0] : x \in IF mayFail THEN {1} ELSE {}}

\* how a body moves against the observer's horizon over the scan window
HorizonKinds == {"crosses", "below", "above"}
\* where the ephemeris / library fails while a rise-set row is built
FaultKinds == {"lookup", "rise", "set"}
\* minutes from target_time to the next rise / set, when there is one
RiseDelays == {45}
SetDelays == {700}

\* rows so far that met a failure / a body without a crossing
FaultCount(outs) == Cardinality({k \in 1..Len(outs) : outs[k].fault # "none"})
CircumpolarCount(outs) == Cardinality({k \in 1..Len(outs) : outs[k].kind # "crosses"})

-----------------------------------------------------------------------------
(* The script *)

Init ==
    /\ pc = "location"
    /\ lat = DefaultLat
    /\ lon = DefaultLon
    /\ date \in ClockDates
    /\ location = NoLocation
    /\ session_state = EmptyState
    /\ warnings = {}
    /\ time_utc = 0
    /\ sun = 0
    /\ is_night = FALSE
    /\ is_day = FALSE
    /\ i = 0
    /\ labels = << >>
    /\ altitudes = << >>
    /\ background = NoBackground
    /\ j = 0
    /\ rise_set_info = << >>
    /\ table = NoTable
    /\ alt_of = EmptyState
    /\ vis_fault = {}
    /\ outcomes = << >>
    /\ rise_fault = {}
    /\ nQueries = 0

\* lines 18-24: the exception of EarthLocation ends the run
Location ==
    /\ pc = "location"
    /\ IF LatitudeAccepted(lat)
       THEN /\ location' = EarthLocation(lat, lon)
            /\ pc' = "session"
       ELSE /\ location' = location
            /\ pc' = "failed"
    /\ UNCHANGED <<lat, lon, date, session_state, warnings, time_utc, sun,
                   is_night, is_day, i, labels, altitudes, background, j,
                   rise_set_info, table, alt_of, vis_fault, outcomes,
                   rise_fault, nQueries>>

\* lines 36-47: the clock is read, the session is initialised on the first
\* run, the date widget is stored
InitSession(clockTimes) ==
    /\ pc = "session"
    /\ \E current_ist \in clockTimes :
         LET current_time_str == strftime(current_ist)
             s1 == IF "time_input" \notin DOMAIN session_state
                   THEN SetKey(SetKey(session_state, "time_input", current_time_str),
                               "time", strptime(current_time_str).time)
                   ELSE session_state
         IN  session_state' = SetKey(s1, "date", date)
    /\ pc' = "validate"
    /\ UNCHANGED <<lat, lon, date, location, warnings, time_utc, sun,
                   is_night, is_day, i, labels, altitudes, background, j,
                   rise_set_info, table, alt_of, vis_fault, outcomes,
                   rise_fault, nQueries>>

\* lines 50-60
ValidateTime ==
    /\ pc = "validate"
    /\ LET time_input == session_state["time_input"]
           stripped == Strip(time_input)
       IN  IF MatchesHHMM(stripped)
           THEN IF strptime(stripped).ok
                THEN /\ session_state' =
                            SetKey(session_state, "time", strptime(stripped).time)
                     /\ warnings' = warnings
                ELSE /\ warnings' = warnings \cup {WARN_INVALID_TIME}
                     /\ session_state' = session_state
           ELSE /\ warnings' = warnings \cup {WARN_INVALID_FORMAT}
                /\ session_state' = session_state
    /\ pc' = "convert"
    /\ UNCHANGED <<lat, lon, date, location, time_utc, sun, is_night, is_day, i,
                   labels, altitudes, background, j, rise_set_info, table,
                   alt_of, vis_fault, outcomes, rise_fault, nQueries>>

\* lines 63-65
ConvertToUTC ==
    /\ pc = "convert"
    /\ time_utc' = ToUTC(session_state["date"], session_state["time"])
    /\ pc' = "sun"
    /\ UNCHANGED <<lat, lon, date, location, session_state, warnings, sun,
                   is_night, is_day, i, labels, altitudes, background, j,
                   rise_set_info, table, alt_of, vis_fault, outcomes,
                   rise_fault, nQueries>>

\* lines 81-83: get_sun is outside any try, its exception ends the run
SunStep(alts, mayFail) ==
    /\ pc = "sun"
    /\ \E r \in Answers(alts, mayFail) :
         IF r.ok
         THEN /\ sun' = r.alt
              /\ is_night' = IsNight(r.alt)
              /\ is_day' = IsDay(r.alt)
              /\ alt_of' = SetKey(alt_of, "sun", r.alt)
              /\ vis_fault' = vis_fault
              /\ pc' = "visible"
         ELSE /\ vis_fault' = vis_fault \cup {"sun"}
              /\ pc' = "failed"
              /\ UNCHANGED <<sun, is_night, is_day, alt_of>>
    /\ nQueries' = nQueries + 1
    /\ UNCHANGED <<lat, lon, date, location, session_state, warnings, time_utc,
                   i, labels, altitudes, background, j, rise_set_info, table,
                   outcomes, rise_fault>>

\* lines 87-91: the filter applied to one body
Collect(planet, alt) ==
    IF AboveHorizon(alt)
    THEN /\ altitudes' = Append(altitudes, alt)
         /\ labels' = Append(labels, capitalize(planet))
    ELSE UNCHANGED <<altitudes, labels>>

\* lines 85-91, one iteration: the Sun reuses line 81's position, a planet
\* is asked of the ephemeris; get_body is outside any try
VisibilityStep(alts, mayFail) ==
    /\ pc = "visible"
    /\ LET planet == planets[i + 1]
       IN  IF planet = "sun"
           THEN /\ Collect(planet, sun)
                /\ i' = i + 1
                /\ pc' = IF i + 1 = Len(planets) THEN "plot" ELSE "visible"
                /\ UNCHANGED <<alt_of, vis_fault, nQueries>>
           ELSE /\ \E r \in Answers(alts, mayFail) :
                     IF r.ok
                     THEN /\ Collect(planet, r.alt)
                          /\ alt_of' = SetKey(alt_of, planet, r.alt)
                          /\ i' = i + 1
                          /\ pc' = IF i + 1 = Len(planets) THEN "plot" ELSE "visible"
                          /\ vis_fault' = vis_fault
                     ELSE /\ vis_fault' = vis_fault \cup {planet}
                          /\ pc' = "failed"
                          /\ UNCHANGED <<altitudes, labels, alt_of, i>>
                /\ nQueries' = nQueries + 1
    /\ UNCHANGED <<lat, lon, date, location, session_state, warnings, time_utc,
                   sun, is_night, is_day, background, j, rise_set_info, table,
                   outcomes, rise_fault>>

\* lines 95-137
Plot ==
    /\ pc = "plot"
    /\ IF labels = << >>
       THEN /\ warnings' = warnings \cup {WARN_NOTHING_VISIBLE}
            /\ background' = background
       ELSE /\ background' = FaceColor(is_night, is_day)
            /\ warnings' = warnings
    /\ pc' = "riseset"
    /\ UNCHANGED <<lat, lon, date, location, session_state, time_utc, sun,
                   is_night, is_day, i, labels, altitudes, j, rise_set_info,
                   table, alt_of, vis_fault, outcomes, rise_fault, nQueries>>

\* observer.target_rise_time(target_time, target, which='next')
\*     .to_datetime(timezone=observer.timezone)  (line 153)
\* yields an instant when the body crosses the horizon upwards; without a
\* crossing the library hands back a masked time that has no datetime, and
\* a failing computation raises: both leave the try block
target_rise_time(kind, fault, target_time, delay) ==
    [ok |-> kind = "crosses" /\ fault # "rise", inst |-> target_time + delay]

\* line 154, as line 153
target_set_time(kind, fault, target_time, delay) ==
    [ok |-> kind = "crosses" /\ fault # "set", inst |-> target_time + delay]

\* lines 152-159: one try block around both calls and both strftime, one
\* bare except that sets both strings
RiseSetStrings(rise, set) ==
    IF rise.ok /\ set.ok
    THEN <<strftime(ToLocalTime(rise.inst)), strftime(ToLocalTime(set.inst))>>
    ELSE <<NEVER_RISES, NEVER_SETS>>

\* lines 149-160, one iteration: the lookup of line 150 is outside the try
RiseSetStep(kinds, faultKinds) ==
    /\ pc = "riseset"
    /\ LET planet == planets[j + 1]
           target_time == time_utc
       IN  \E kind \in kinds, fault \in faultKinds \cup {"none"},
              rd \in RiseDelays, sd \in SetDelays :
             /\ fault # "none" =>
                    FaultCount(outcomes) + Cardinality(rise_fault) < MaxFaults
             /\ kind # "crosses" => CircumpolarCount(outcomes) < MaxCircumpolar
             /\ IF fault = "lookup"
                THEN /\ rise_fault' = rise_fault \cup {planet}
                     /\ pc' = "failed"
                     /\ UNCHANGED <<rise_set_info, outcomes, j>>
                ELSE LET rise == target_rise_time(kind, fault, target_time, rd)
                         set == target_set_time(kind, fault, target_time, sd)
                         strs == RiseSetStrings(rise, set)
                     IN  /\ rise_set_info' =
                                Append(rise_set_info,
                                       <<capitalize(planet), strs[1], strs[2]>>)
                         /\ outcomes' =
                                Append(outcomes,
                                       [kind |-> kind, fault |-> fault,
                                        rise |-> rise, set |-> set])
                         /\ j' = j + 1
                         /\ pc' = IF j + 1 = Len(planets) THEN "table" ELSE "riseset"
                         /\ rise_fault' = rise_fault
    /\ nQueries' = nQueries + 1
    /\ UNCHANGED <<lat, lon, date, location, session_state, warnings, time_utc,
                   sun, is_night, is_day, i, labels, altitudes, background,
                   table, alt_of, vis_fault>>

\* lines 163-167
ShowTable ==
    /\ pc = "table"
    /\ table' = [Planet |-> [k \in 1..Len(rise_set_info) |-> rise_set_info[k][1]],
                 Rise   |-> [k \in 1..Len(rise_set_info) |-> rise_set_info[k][2]],
                 Set    |-> [k \in 1..Len(rise_set_info) |-> rise_set_info[k][3]]]
    /\ pc' = "done"
    /\ UNCHANGED <<lat, lon, date, location, session_state, warnings, time_utc,
                   sun, is_night, is_day, i, labels, altitudes, background, j,
                   rise_set_info, alt_of, vis_fault, outcomes, rise_fault,
                   nQueries>>

\* The user edits widgets and Streamlit runs the script again from the top:
\* the widget values and st.session_state are kept, every script variable
\* starts afresh.  The text box exists once a run has reached line 50, and
\* its value lives in session_state under its key.
Rerun(lats, lons, dates, inputs) ==
    /\ pc \in {"done", "failed"}
    /\ lat' \in lats
    /\ lon' \in lons
    /\ date' \in dates
    /\ IF "time_input" \in DOMAIN session_state
       THEN \E txt \in inputs \cup {session_state["time_input"]} :
                session_state' = SetKey(session_state, "time_input", txt)
       ELSE session_state' = session_state
    /\ pc' = "location"
    /\ location' = NoLocation
    /\ warnings' = {}
    /\ time_utc' = 0
    /\ sun' = 0
    /\ is_night' = FALSE
    /\ is_day' = FALSE
    /\ i' = 0
    /\ labels' = << >>
    /\ altitudes' = << >>
    /\ background' = NoBackground
    /\ j' = 0
    /\ rise_set_info' = << >>
    /\ table' = NoTable
    /\ alt_of' = EmptyState
    /\ vis_fault' = {}
    /\ outcomes' = << >>
    /\ rise_fault' = {}
    /\ nQueries' = 0

-----------------------------------------------------------------------------
(* Specifications *)

\* every input at once
Next ==
    \/ Location
    \/ InitSession(ClockTimes)
    \/ ValidateTime
    \/ ConvertToUTC
    \/ SunStep(SunAlts, TRUE)
    \/ VisibilityStep(PlanetAlts, TRUE)
    \/ Plot
    \/ RiseSetStep(HorizonKinds, FaultKinds)
    \/ ShowTable
    \/ Rerun(Lats, Lons, Dates, TimeInputs)

Spec == Init /\ [][Next]_vars

\* the user's inputs vary over reruns, under a sky that answers every call
NextSession ==
    \/ Location
    \/ InitSession(ClockTimes)
    \/ ValidateTime
    \/ ConvertToUTC
    \/ SunStep(ClearSunAlts, FALSE)
    \/ VisibilityStep(ClearPlanetAlts, FALSE)
    \/ Plot
    \/ RiseSetStep({"crosses"}, {})
    \/ ShowTable
    \/ Rerun(Lats, Lons, Dates, TimeInputs)

SpecSession == Init /\ [][NextSession]_vars

\* the sky and the ephemeris vary, the widgets keep their defaults
NextSky ==
    \/ Location
    \/ InitSession({[hour |-> 21, minute |-> 15]})
    \/ ValidateTime
    \/ ConvertToUTC
    \/ SunStep(SunAlts, TRUE)
    \/ VisibilityStep(PlanetAlts, TRUE)
    \/ Plot
    \/ RiseSetStep({"crosses"}, {})
    \/ ShowTable
    \/ Rerun({DefaultLat}, {DefaultLon}, ClockDates, {})

SpecSky == Init /\ [][NextSky]_vars

\* the rise/set answers vary, the widgets keep their defaults
NextRiseSet ==
    \/ Location
    \/ InitSession({[hour |-> 21, minute |-> 15]})
    \/ ValidateTime
    \/ ConvertToUTC
    \/ SunStep(ClearSunAlts, FALSE)
    \/ VisibilityStep(ClearPlanetAlts, FALSE)
    \/ Plot
    \/ RiseSetStep(HorizonKinds, FaultKinds)
    \/ ShowTable
    \/ Rerun({DefaultLat}, {DefaultLon}, ClockDates, {})

SpecRiseSet == Init /\ [][NextRiseSet]_vars

-----------------------------------------------------------------------------
(* Properties *)

InLabels(name) == \E n \in 1..Len(labels) : labels[n] = name
CatalogIndex(name) == CHOOSE k \in 1..Len(planets) : capitalize(planets[k]) = name
LoopFinished == i = Len(planets)
Regime ==
    LET c == FaceColor(is_night, is_day)
    IN  IF c = NightColor THEN "Night" ELSE IF c = DayColor THEN "Day" ELSE "Twilight"

\* C1: for every solar altitude a the regime chosen by the flags and the
\* background branch is Night iff a < -6, Twilight iff -6 <= a <= 0 and Day
\* iff a > 0; the background that is drawn is the one of that regime.
C1_LightingRegime ==
    "sun" \in DOMAIN alt_of =>
        LET a == alt_of["sun"]
        IN  /\ (Regime = "Night") <=> (a < -6)
            /\ (Regime = "Twilight") <=> (-6 <= a /\ a <= 0)
            /\ (Regime = "Day") <=> (a > 0)
            /\ is_night <=> (a < -6)
            /\ is_day <=> (a > 0)
            /\ background = NightColor => a < -6
            /\ background = TwilightColor => (-6 <= a /\ a <= 0)
            /\ background = DayColor => a > 0

\* C1 witness: the Sun exactly at -6 and a twilight background drawn
C1_Witness ==
    /\ "sun" \in DOMAIN alt_of
    /\ alt_of["sun"] = -6
    /\ background = TwilightColor

\* C2: once the visibility loop has run over the catalog, a body is in the
\* visible list iff its altitude is strictly positive, no body is listed
\* twice, and the list follows catalog order.
C2_VisibleList ==
    LoopFinished =>
        /\ \A k \in 1..Len(planets) :
               InLabels(capitalize(planets[k])) <=> (alt_of[planets[k]] > 0)
        /\ \A m, n \in 1..Len(labels) : m # n => labels[m] # labels[n]
        /\ \A n \in 1..(Len(labels) - 1) :
               CatalogIndex(labels[n]) < CatalogIndex(labels[n + 1])
        /\ \A n \in 1..Len(labels) :
               altitudes[n] = alt_of[planets[CatalogIndex(labels[n])]]
        /\ Len(altitudes) = Len(labels)

\* C2 witness: the loop is over, a planet sat exactly on the horizon and is
\* left out, and several bodies are listed
C2_Witness ==
    /\ LoopFinished
    /\ alt_of["venus"] = 0
    /\ ~InLabels("Venus")
    /\ InLabels("Mercury") /\ InLabels("Saturn") /\ InLabels("Sun")

\* C3: a failing ephemeris call for one body of the visibility loop does
\* not abort the snapshot: the run goes on and lists every other body whose
\* altitude is positive.
C3_SnapshotSurvivesFailure ==
    vis_fault # {} =>
        /\ pc # "failed"
        /\ LoopFinished =>
               \A k \in 1..Len(planets) :
                   (planets[k] \in DOMAIN alt_of /\ alt_of[planets[k]] > 0)
                       => InLabels(capitalize(planets[k]))

\* C4: a body without a horizon crossing is reported by direction: one that
\* stays below as never rising (and not as never setting), one that stays
\* above as never setting (and not as never rising).
C4_NoCrossingByDirection ==
    \A k \in 1..Len(rise_set_info) :
        outcomes[k].fault = "none" =>
            /\ outcomes[k].kind = "below" =>
                   /\ rise_set_info[k][2] = NEVER_RISES
                   /\ rise_set_info[k][3] # NEVER_SETS
            /\ outcomes[k].kind = "above" =>
                   /\ rise_set_info[k][3] = NEVER_SETS
                   /\ rise_set_info[k][2] # NEVER_RISES

IsIndeterminate(row) ==
    /\ row[2] # NEVER_RISES /\ ~MatchesHHMM(row[2])
    /\ row[3] # NEVER_SETS /\ ~MatchesHHMM(row[3])

\* C5: a provider failure while the rise/set table is built (at the lookup
\* or inside the rise/set calls) ends no run; the body's row is reported as
\* indeterminate and the table has one row per catalog body, in order.
C5_FailureIsIndeterminate ==
    /\ rise_fault # {} => pc # "failed"
    /\ \A k \in 1..Len(rise_set_info) :
           outcomes[k].fault # "none" => IsIndeterminate(rise_set_info[k])
    /\ pc = "done" => table.Planet = [k \in 1..Len(planets) |-> capitalize(planets[k])]

\* C6: a row built after a failing rise/set call differs from a row of a
\* body that never crosses the horizon.
C6_FailureDistinguished ==
    \A a, b \in 1..Len(rise_set_info) :
        (/\ outcomes[a].fault \in {"rise", "set"}
         /\ outcomes[b].fault = "none"
         /\ outcomes[b].kind # "crosses")
            => <<rise_set_info[a][2], rise_set_info[a][3]>>
                   # <<rise_set_info[b][2], rise_set_info[b][3]>>

\* C7: a concrete rise time is reported whatever the set computation
\* yields, and a concrete set time whatever the rise computation yields.
C7_RiseSetIndependent ==
    \A k \in 1..Len(rise_set_info) :
        /\ outcomes[k].rise.ok =>
               rise_set_info[k][2] = strftime(ToLocalTime(outcomes[k].rise.inst))
        /\ outcomes[k].set.ok =>
               rise_set_info[k][3] = strftime(ToLocalTime(outcomes[k].set.inst))

Malformed(la, lo) == la < -90 \/ la > 90 \/ lo < -180 \/ lo > 360

\* C8: with malformed observer coordinates the run fails before any
\* ephemeris query, visibility classification or rise/set computation.
C8_MalformedFailsFirst ==
    Malformed(lat, lon) =>
        /\ pc \in {"location", "failed"}
        /\ nQueries = 0
        /\ alt_of = EmptyState
        /\ labels = << >>
        /\ background = NoBackground
        /\ rise_set_info = << >>

ValidTimeOfDay(t) == t.hour \in 0..23 /\ t.minute \in 0..59
\* the times of day a text denotes: those whose HH:MM form it is
DenotedTimes(txt) ==
    {t \in [hour : 0..23, minute : 0..59] : strftime(t) = Strip(txt)}
TimeWarnings == {WARN_INVALID_TIME, WARN_INVALID_FORMAT}

\* C9: the stored session time is always a valid time of day; a time input
\* that denotes no time raises a warning and leaves the stored time as it
\* was, a valid one replaces it, nothing else changes it, the run goes on,
\* and the query instant is built from the stored time.
C9_SessionTimeKept ==
    [][ /\ "time" \in DOMAIN session_state' =>
               ValidTimeOfDay(session_state'["time"])
        /\ pc = "validate" =>
               /\ pc' = "convert"
               /\ IF DenotedTimes(session_state["time_input"]) = {}
                  THEN /\ session_state'["time"] = session_state["time"]
                       /\ warnings' \cap TimeWarnings # {}
                  ELSE /\ session_state'["time"]
                              \in DenotedTimes(session_state["time_input"])
                       /\ warnings' \cap TimeWarnings = {}
        /\ pc = "convert" =>
               /\ pc' = "sun"
               /\ time_utc' = session_state["date"] * 1440
                                + session_state["time"].hour * 60
                                + session_state["time"].minute - 330
        /\ pc = "session" /\ "time" \notin DOMAIN session_state =>
               session_state'["time"] \in ClockTimes
        /\ pc # "validate" /\ "time" \in DOMAIN session_state =>
               session_state'["time"] = session_state["time"]
      ]_vars

\* C9 witness: a run that rejected its time input with a warning, kept the
\* time typed in an earlier run and went on to show the rise/set table
C9_Witness ==
    /\ pc = "done"
    /\ session_state["time_input"] = <<"2", "4", ":", "0", "0">>
    /\ WARN_INVALID_TIME \in warnings
    /\ session_state["time"] = [hour |-> 18, minute |-> 30]
    /\ time_utc = session_state["date"] * 1440 + 18 * 60 + 30 - 330
    /\ Len(table.Planet) = Len(planets)

\* C10: after the visibility loop the Sun is in the visible list iff the
\* regime is Day; under Night or Twilight the Sun is not listed, and an
\* empty list excludes Day.
C10_SunMatchesRegime ==
    LoopFinished =>
        /\ InLabels("Sun") <=> (Regime = "Day")
        /\ Regime \in {"Night", "Twilight"} => ~InLabels("Sun")
        /\ labels = << >> => Regime # "Day"
        /\ background = DayColor => InLabels("Sun")
        /\ background \in {NightColor, TwilightColor} => ~InLabels("Sun")

\* C10 witness: the Sun exactly on the horizon, planets plotted on a
\* twilight background without it
C10_Witness ==
    /\ LoopFinished
    /\ alt_of["sun"] = 0
    /\ background = TwilightColor
    /\ labels # << >>
    /\ ~InLabels("Sun")

=============================================================================
